---- MODULE Spec2Model ----
(***************************************************************************)
(* Model of the recommendation core of smart_shopping:                     *)
(*   agents/base_agent.py      two-tier agent memory (cache + agent_memory)*)
(*   agents/recommendation.py  strategy selection, the four engines,       *)
(*                             persistence, feedback-driven rotation       *)
(*   agents/product_agent.py   the relevance scorer                        *)
(*   agents/coordinator.py     handle_feedback                             *)
(*                                                                         *)
(* Numbers.  Scores are integers in thousandths (1000 = 1.0), ratings and  *)
(* sentiment in tenths (45 = 4.5, 7 = 0.7), price multipliers in tenths    *)
(* (15 = 1.5).  All inputs are drawn on a grid on which the blends         *)
(* 0.4*x and 0.2*x are exact.                                              *)
(***************************************************************************)
EXTENDS Integers, Sequences, FiniteSets, TLC

VARIABLES
    memory,           \* RecommendationAgent.memory: strategy_preference_<id> -> value
    agent_memory,     \* rows of table agent_memory for agent "recommendation", per key, in rowid order
    recommendations,  \* rows of table recommendations, in rowid order
    request,          \* the request being served / last served
    response,         \* what the handler returned for it
    inflight          \* feedback requests in progress (concurrent deployment only)

vars == <<memory, agent_memory, recommendations, request, response, inflight>>

-----------------------------------------------------------------------------
(* Bounds of the model *)

MaxMemRows == 3       \* agent_memory rows kept per key
MaxHist    == 1       \* length of a browsing / purchase history in a request
MaxRecRows == 1       \* rows kept in table recommendations

-----------------------------------------------------------------------------
(* Values *)

None == "None"                      \* Python None / key not in dict

Customers == {"CU1", "CU2"}
Products  == {"PR1"}
Missing   == ""                     \* a request field that is absent (falsy)

Segments   == {"New Visitor", "Frequent Buyer", "Occasional Shopper"}
Categories == {"Books"}

\* self.strategies: the dict's keys in insertion order
strategies ==
    <<"collaborative_filtering", "content_based", "popularity_based", "hybrid">>

StrategyNames == {strategies[i] : i \in 1..Len(strategies)}

FeedbackValues == {-2, -1, 0, 1}

Histories == UNION {[1..n -> Categories] : n \in 0..MaxHist}

\* Python truthiness of the values that occur: None and "" are falsy texts,
\* 0 is the falsy number
Truthy(v) == v # None /\ v # Missing

TruthyNumber(n) == n # 0

Contains(seq, x) == \E i \in 1..Len(seq) : seq[i] = x

-----------------------------------------------------------------------------
(* BaseAgent: two-tier memory *)

\* json.loads of a stored text: the JSON literal null loads as None, a text
\* that is no JSON (every strategy name) raises JSONDecodeError and is kept
json_loads(text) == IF text = "null" THEN None ELSE text

store_memory_drops_cache(mem, db, key, value) ==
    [memory       |-> mem,
     agent_memory |-> [db EXCEPT ![key] = Append(@, value)]]

\* store_memory: cache write, then INSERT of a new agent_memory row
store_memory(mem, db, key, value) ==
    [memory       |-> [mem EXCEPT ![key] = value],
     agent_memory |-> [db EXCEPT ![key] = Append(@, value)]]

recall_memory_durable_first(mem, db, key) ==
    IF db[key] # <<>>
    THEN LET value == json_loads(db[key][1])
         IN  [ret |-> value, memory |-> [mem EXCEPT ![key] = value]]
    ELSE [ret |-> mem[key], memory |-> mem]

\* recall_memory: the cache first; on a miss the first row SELECT returns,
\* which is then cached
recall_memory(mem, db, key) ==
    IF mem[key] # None
    THEN [ret |-> mem[key], memory |-> mem]
    ELSE IF db[key] # <<>>
         THEN LET value == json_loads(db[key][1])
              IN  [ret |-> value, memory |-> [mem EXCEPT ![key] = value]]
         ELSE [ret |-> None, memory |-> mem]

-----------------------------------------------------------------------------
(* RecommendationAgent: strategy selection *)

segment_policy_browsing_first(customer_data) ==
    IF Len(customer_data.browsing_history) > Len(customer_data.purchase_history)
    THEN "content_based"
    ELSE IF customer_data.customer_segment = "New Visitor"
    THEN "popularity_based"
    ELSE IF customer_data.customer_segment = "Frequent Buyer"
    THEN "collaborative_filtering"
    ELSE "hybrid"

segment_policy_unnamed_default(customer_data) ==
    IF customer_data.customer_segment = "New Visitor"
    THEN "popularity_based"
    ELSE IF customer_data.customer_segment = "Frequent Buyer"
    THEN "collaborative_filtering"
    ELSE IF Len(customer_data.browsing_history) > Len(customer_data.purchase_history)
    THEN "content_based"
    ELSE "default"

\* the if / elif chain of _select_recommendation_strategy
segment_policy(customer_data) ==
    IF customer_data.customer_segment = "New Visitor"
    THEN "popularity_based"
    ELSE IF customer_data.customer_segment = "Frequent Buyer"
    THEN "collaborative_filtering"
    ELSE IF Len(customer_data.browsing_history) > Len(customer_data.purchase_history)
    THEN "content_based"
    ELSE "hybrid"

select_recommendation_strategy_always_policy(mem, db, customer_data) ==
    LET key      == customer_data.customer_id
        strategy == segment_policy(customer_data)
        stored   == store_memory(mem, db, key, strategy)
    IN  [ret |-> strategy, memory |-> stored.memory,
         agent_memory |-> stored.agent_memory]

select_recommendation_strategy(mem, db, customer_data) ==
    LET key      == customer_data.customer_id
        recalled == recall_memory(mem, db, key)
    IN  IF Truthy(recalled.ret)
        THEN [ret |-> recalled.ret, memory |-> recalled.memory, agent_memory |-> db]
        ELSE LET strategy == segment_policy(customer_data)
                 stored   == store_memory(recalled.memory, db, key, strategy)
             IN  [ret |-> strategy, memory |-> stored.memory,
                  agent_memory |-> stored.agent_memory]

-----------------------------------------------------------------------------
(* RecommendationAgent: feedback learner *)

IndexOf(seq, x) == CHOOSE i \in 1..Len(seq) : seq[i] = x

next_strategy_no_wrap(current_strategy) ==
    LET current_index == IF current_strategy \in StrategyNames
                         THEN IndexOf(strategies, current_strategy) ELSE 1
    IN  IF current_index = Len(strategies)
        THEN strategies[current_index]
        ELSE strategies[current_index + 1]

\* strategies[(index + 1) % len]; an unknown name counts as index 0
next_strategy(current_strategy) ==
    LET current_index == IF current_strategy \in StrategyNames
                         THEN IndexOf(strategies, current_strategy) ELSE 1
    IN  strategies[(current_index % Len(strategies)) + 1]

learn_from_feedback_any_sign(mem, db, customer_id, product_id, feedback) ==
    LET recalled == recall_memory(mem, db, customer_id)
        current  == recalled.ret
    IN  IF Truthy(current)
        THEN LET next   == next_strategy(current)
                 stored == store_memory(recalled.memory, db, customer_id, next)
             IN  [ret |-> [status |-> "learned_from_feedback",
                           action_taken |-> "adjusted_strategy",
                           previous_strategy |-> current, new_strategy |-> next],
                  memory |-> stored.memory, agent_memory |-> stored.agent_memory]
        ELSE [ret |-> [status |-> "feedback_recorded",
                       action_taken |-> "maintained_strategy",
                       current_strategy |-> current],
              memory |-> recalled.memory, agent_memory |-> db]

learn_from_feedback(mem, db, customer_id, product_id, feedback) ==
    LET recalled == recall_memory(mem, db, customer_id)
        current  == recalled.ret
    IN  IF feedback < 0 /\ Truthy(current)
        THEN LET next   == next_strategy(current)
                 stored == store_memory(recalled.memory, db, customer_id, next)
             IN  [ret |-> [status |-> "learned_from_feedback",
                           action_taken |-> "adjusted_strategy",
                           previous_strategy |-> current, new_strategy |-> next],
                  memory |-> stored.memory, agent_memory |-> stored.agent_memory]
        ELSE [ret |-> [status |-> "feedback_recorded",
                       action_taken |-> "maintained_strategy",
                       current_strategy |-> current],
              memory |-> recalled.memory, agent_memory |-> db]

-----------------------------------------------------------------------------
(* RecommendationAgent: the four engines *)

TopN == 10                          \* sorted_products[:10]

Min(a, b) == IF a < b THEN a ELSE b

Take(seq, n) == SubSeq(seq, 1, Min(n, Len(seq)))

sorted_reverse_ties_reversed(seq, keys) ==
    LET n   == Len(seq)
        pos == [i \in 1..n |->
                   1 + Cardinality({j \in 1..n : keys[j] > keys[i]})
                     + Cardinality({j \in (i + 1)..n : keys[j] = keys[i]})]
    IN  [p \in 1..n |-> seq[CHOOSE i \in 1..n : pos[i] = p]]

\* sorted(seq, key=..., reverse=True) with keys[i] the key of seq[i]:
\* descending and stable (equal keys keep their input order)
sorted_reverse(seq, keys) ==
    LET n   == Len(seq)
        pos == [i \in 1..n |->
                   1 + Cardinality({j \in 1..n : keys[j] > keys[i]})
                     + Cardinality({j \in 1..(i - 1) : keys[j] = keys[i]})]
    IN  [p \in 1..n |-> seq[CHOOSE i \in 1..n : pos[i] = p]]

\* score * 0.4, score * 0.2 with the weight in tenths
Weighted(score, weight) == (score * weight) \div 10

collaborative_filtering_strategy_input_order(customer_data, products) ==
    IF products = <<>> THEN <<>>
    ELSE LET top == Take(products, TopN)
         IN  [i \in 1..Len(top) |->
                 [product_id |-> top[i].product_id,
                  category   |-> top[i].category,
                  score      |-> top[i].relevance_score,
                  reason     |-> <<"similar_customers">>]]

collaborative_filtering_strategy(customer_data, products) ==
    IF products = <<>> THEN <<>>
    ELSE LET sorted_products ==
                 sorted_reverse(products,
                     [i \in 1..Len(products) |-> products[i].relevance_score])
             top == Take(sorted_products, TopN)
         IN  [i \in 1..Len(top) |->
                 [product_id |-> top[i].product_id,
                  category   |-> top[i].category,
                  score      |-> top[i].relevance_score,
                  reason     |-> <<"similar_customers">>]]

content_score_per_occurrence(customer_data, product) ==
    product.relevance_score
      + 100 * Cardinality({k \in 1..Len(customer_data.browsing_history) :
                              customer_data.browsing_history[k] = product.category})
      + 150 * Cardinality({k \in 1..Len(customer_data.purchase_history) :
                              customer_data.purchase_history[k] = product.category})

content_score(customer_data, product) ==
    product.relevance_score
      + (IF Contains(customer_data.browsing_history, product.category) THEN 100 ELSE 0)
      + (IF Contains(customer_data.purchase_history, product.category) THEN 150 ELSE 0)

content_based_strategy(customer_data, products) ==
    IF products = <<>> THEN <<>>
    ELSE LET scored_products ==
                 [i \in 1..Len(products) |->
                     [product_id |-> products[i].product_id,
                      category   |-> products[i].category,
                      score      |-> content_score(customer_data, products[i]),
                      reason     |-> <<"interest_in_category">>]]
             sorted_products ==
                 sorted_reverse(scored_products,
                     [i \in 1..Len(products) |-> scored_products[i].score])
         IN  Take(sorted_products, TopN)

\* rating / 5.0, the rating in tenths and the score in thousandths
popularity_score(product_rating) == product_rating * 20

popularity_based_strategy(customer_data, products) ==
    IF products = <<>> THEN <<>>
    ELSE LET sorted_products ==
                 sorted_reverse(products,
                     [i \in 1..Len(products) |-> products[i].product_rating])
             top == Take(sorted_products, TopN)
         IN  [i \in 1..Len(top) |->
                 [product_id |-> top[i].product_id,
                  category   |-> top[i].category,
                  score      |-> popularity_score(top[i].product_rating),
                  reason     |-> <<"popular">>]]

\* one "for rec in ..." loop of _hybrid_strategy over the dict all_recs, kept
\* as the sequence of its values in insertion order
RECURSIVE merge_recs(_, _, _, _)
merge_recs(all_recs, recs, weight, combine_reasons) ==
    IF recs = <<>> THEN all_recs
    ELSE LET rec   == Head(recs)
             score == Weighted(rec.score, weight)
             known == \E i \in 1..Len(all_recs) : all_recs[i].product_id = rec.product_id
             next  ==
                 IF known
                 THEN [i \in 1..Len(all_recs) |->
                         IF all_recs[i].product_id = rec.product_id
                         THEN [all_recs[i] EXCEPT
                                 !.score  = @ + score,
                                 !.reason = IF combine_reasons
                                            THEN @ \o <<"and">> \o rec.reason
                                            ELSE @]
                         ELSE all_recs[i]]
                 ELSE Append(all_recs, [rec EXCEPT !.score = score])
         IN  merge_recs(next, Tail(recs), weight, combine_reasons)

hybrid_strategy_equal_weights(customer_data, products) ==
    LET collaborative_recs == collaborative_filtering_strategy(customer_data, products)
        content_recs       == content_based_strategy(customer_data, products)
        popularity_recs    == popularity_based_strategy(customer_data, products)
        with_collab  == merge_recs(<<>>, collaborative_recs, 4, FALSE)
        with_content == merge_recs(with_collab, content_recs, 4, TRUE)
        all_recs     == merge_recs(with_content, popularity_recs, 4, FALSE)
        sorted_recs  == sorted_reverse(all_recs,
                            [i \in 1..Len(all_recs) |-> all_recs[i].score])
    IN  Take(sorted_recs, TopN)

hybrid_strategy_unsorted(customer_data, products) ==
    LET collaborative_recs == collaborative_filtering_strategy(customer_data, products)
        content_recs       == content_based_strategy(customer_data, products)
        popularity_recs    == popularity_based_strategy(customer_data, products)
        with_collab  == merge_recs(<<>>, collaborative_recs, 4, FALSE)
        with_content == merge_recs(with_collab, content_recs, 4, TRUE)
        all_recs     == merge_recs(with_content, popularity_recs, 2, FALSE)
    IN  Take(all_recs, TopN)

hybrid_strategy(customer_data, products) ==
    LET collaborative_recs == collaborative_filtering_strategy(customer_data, products)
        content_recs       == content_based_strategy(customer_data, products)
        popularity_recs    == popularity_based_strategy(customer_data, products)
        with_collab  == merge_recs(<<>>, collaborative_recs, 4, FALSE)
        with_content == merge_recs(with_collab, content_recs, 4, TRUE)
        all_recs     == merge_recs(with_content, popularity_recs, 2, FALSE)
        sorted_recs  == sorted_reverse(all_recs,
                            [i \in 1..Len(all_recs) |-> all_recs[i].score])
    IN  Take(sorted_recs, TopN)

run_strategy_first_as_default(strategy, customer_data, products) ==
    IF strategy = "content_based"
    THEN content_based_strategy(customer_data, products)
    ELSE IF strategy = "popularity_based"
    THEN popularity_based_strategy(customer_data, products)
    ELSE IF strategy = "hybrid"
    THEN hybrid_strategy(customer_data, products)
    ELSE collaborative_filtering_strategy(customer_data, products)

\* self.strategies.get(strategy, self._hybrid_strategy)(customer_data, product_data)
run_strategy(strategy, customer_data, products) ==
    IF strategy = "collaborative_filtering"
    THEN collaborative_filtering_strategy(customer_data, products)
    ELSE IF strategy = "content_based"
    THEN content_based_strategy(customer_data, products)
    ELSE IF strategy = "popularity_based"
    THEN popularity_based_strategy(customer_data, products)
    ELSE hybrid_strategy(customer_data, products)

recommendation_rows_placeholder(customer_id, recs) ==
    IF recs = <<>>
    THEN <<[customer_id |-> customer_id, product_id |-> None, score |-> 0,
            reason |-> <<>>, feedback |-> 0]>>
    ELSE [i \in 1..Len(recs) |->
             [customer_id |-> customer_id,
              product_id  |-> recs[i].product_id,
              score       |-> recs[i].score,
              reason      |-> recs[i].reason,
              feedback    |-> 0]]

\* the rows db.add_recommendation inserts for the returned list; the column
\* feedback takes its DEFAULT 0
recommendation_rows(customer_id, recs) ==
    [i \in 1..Len(recs) |->
        [customer_id |-> customer_id,
         product_id  |-> recs[i].product_id,
         score       |-> recs[i].score,
         reason      |-> recs[i].reason,
         feedback    |-> 0]]

update_feedback_by_customer(rows, customer_id, product_id, feedback) ==
    [i \in 1..Len(rows) |->
        IF rows[i].customer_id = customer_id
        THEN [rows[i] EXCEPT !.feedback = feedback]
        ELSE rows[i]]

\* UPDATE recommendations SET feedback = ? WHERE customer_id = ? AND product_id = ?
update_feedback(rows, customer_id, product_id, feedback) ==
    [i \in 1..Len(rows) |->
        IF rows[i].customer_id = customer_id /\ rows[i].product_id = product_id
        THEN [rows[i] EXCEPT !.feedback = feedback]
        ELSE rows[i]]

-----------------------------------------------------------------------------
(* State machine: one agent instance serving requests one at a time *)

\* a scored product as the product agent hands it on
ScoredProduct(id, cat, relevance, rating) ==
    [product_id |-> id, category |-> cat,
     relevance_score |-> relevance, product_rating |-> rating]

\* product_data.get('products', []) of the requests served here
CandidateLists == {<<>>}

CustomerData ==
    [customer_id : Customers, customer_segment : Segments,
     browsing_history : Histories, purchase_history : Histories]

NoRequest  == [action |-> "none"]
NoResponse == [status |-> "none"]

\* BaseAgent.__init__ over a fresh database: empty cache, no agent_memory rows
Init ==
    /\ memory = [c \in Customers |-> None]
    /\ agent_memory = [c \in Customers |-> <<>>]
    /\ recommendations = <<>>
    /\ request = NoRequest
    /\ response = NoResponse
    /\ inflight = <<>>

\* BaseAgent.__init__ over the database of an earlier run, which left per
\* customer either nothing or the strategy it had selected first
InitStored ==
    /\ memory = [c \in Customers |-> None]
    /\ agent_memory \in [Customers -> {<<>>} \cup {<<s>> : s \in StrategyNames}]
    /\ recommendations = <<>>
    /\ request = NoRequest
    /\ response = NoResponse
    /\ inflight = <<>>

\* RecommendationAgent.process, action generate_recommendations:
\* select the strategy, run its engine, persist the list, return it
Recommend(customer_data, products) ==
    LET selected == select_recommendation_strategy(memory, agent_memory, customer_data)
        strategy == selected.ret
        recs     == run_strategy(strategy, customer_data, products)
    IN  /\ Len(recommendations) + Len(recs) <= MaxRecRows
        /\ memory' = selected.memory
        /\ agent_memory' = selected.agent_memory
        /\ recommendations' =
               recommendations \o recommendation_rows(customer_data.customer_id, recs)
        /\ request' = [action |-> "generate_recommendations",
                       customer_data |-> customer_data, products |-> products]
        /\ response' = [status |-> "ok", strategy |-> strategy,
                        recommendations |-> recs]
        /\ UNCHANGED inflight

Feedback_customer_validated(customer_id, product_id, feedback) ==
    /\ request' = [action |-> "feedback", customer_id |-> customer_id,
                   product_id |-> product_id, feedback |-> feedback]
    /\ UNCHANGED inflight
    /\ IF ~(Truthy(customer_id) /\ TruthyNumber(feedback))
       THEN /\ response' = [status |-> "error", learner |-> None]
            /\ UNCHANGED <<memory, agent_memory, recommendations>>
       ELSE LET learned == learn_from_feedback(memory, agent_memory,
                                               customer_id, product_id, feedback)
            IN  /\ Len(learned.agent_memory[customer_id]) <= MaxMemRows
                /\ recommendations' =
                       update_feedback(recommendations, customer_id, product_id, feedback)
                /\ memory' = learned.memory
                /\ agent_memory' = learned.agent_memory
                /\ response' = [status |-> "feedback_recorded", learner |-> learned.ret]

\* CoordinatorAgent.handle_feedback: validate, UPDATE the feedback column,
\* then RecommendationAgent.process with action learn_from_feedback, whose
\* return value is dropped
Feedback(customer_id, product_id, feedback) ==
    /\ request' = [action |-> "feedback", customer_id |-> customer_id,
                   product_id |-> product_id, feedback |-> feedback]
    /\ UNCHANGED inflight
    /\ IF ~(Truthy(customer_id) /\ Truthy(product_id) /\ TruthyNumber(feedback))
       THEN /\ response' = [status |-> "error", learner |-> None]
            /\ UNCHANGED <<memory, agent_memory, recommendations>>
       ELSE LET learned == learn_from_feedback(memory, agent_memory,
                                               customer_id, product_id, feedback)
            IN  /\ Len(learned.agent_memory[customer_id]) <= MaxMemRows
                /\ recommendations' =
                       update_feedback(recommendations, customer_id, product_id, feedback)
                /\ memory' = learned.memory
                /\ agent_memory' = learned.agent_memory
                /\ response' = [status |-> "feedback_recorded", learner |-> learned.ret]

Next ==
    \/ \E cd \in CustomerData, products \in CandidateLists : Recommend(cd, products)
    \/ \E c \in Customers \cup {Missing}, p \in Products \cup {Missing},
          f \in FeedbackValues : Feedback(c, p, f)

Spec == Init /\ [][Next]_vars

SpecStored == InitStored /\ [][Next]_vars

-----------------------------------------------------------------------------
(* State machine: feedback requests served concurrently.  handle_feedback  *)
(* takes no lock, so between the learner's recall_memory and its           *)
(* store_memory another request's steps may run.                           *)

MaxInflight == 2      \* feedback requests started in one run

\* handle_feedback up to the learner's read: validation and the UPDATE
BeginFeedback(customer_id, product_id, feedback) ==
    /\ Len(inflight) < MaxInflight
    /\ LET valid == Truthy(customer_id) /\ Truthy(product_id) /\ TruthyNumber(feedback)
       IN  /\ inflight' = Append(inflight,
                  [pc |-> IF valid THEN "recall" ELSE "done",
                   customer_id |-> customer_id, product_id |-> product_id,
                   feedback |-> feedback, current_strategy |-> None,
                   status |-> IF valid THEN "running" ELSE "error"])
           /\ recommendations' =
                  IF valid
                  THEN update_feedback(recommendations, customer_id, product_id, feedback)
                  ELSE recommendations
    /\ UNCHANGED <<memory, agent_memory, request, response>>

\* _learn_from_feedback: current_strategy = self.recall_memory(strategy_key)
RecallStep(i) ==
    LET r        == inflight[i]
        recalled == recall_memory(memory, agent_memory, r.customer_id)
        rotate   == r.feedback < 0 /\ Truthy(recalled.ret)
    IN  /\ r.pc = "recall"
        /\ memory' = recalled.memory
        /\ inflight' = [inflight EXCEPT ![i] =
               [r EXCEPT !.pc = IF rotate THEN "store" ELSE "done",
                         !.current_strategy = recalled.ret,
                         !.status = IF rotate THEN "running" ELSE "feedback_recorded"]]
        /\ UNCHANGED <<agent_memory, recommendations, request, response>>

\* _learn_from_feedback: self.store_memory(strategy_key, next_strategy)
StoreStep(i) ==
    LET r      == inflight[i]
        stored == store_memory(memory, agent_memory, r.customer_id,
                               next_strategy(r.current_strategy))
    IN  /\ r.pc = "store"
        /\ memory' = stored.memory
        /\ agent_memory' = stored.agent_memory
        /\ inflight' = [inflight EXCEPT ![i] =
               [r EXCEPT !.pc = "done", !.status = "feedback_recorded"]]
        /\ UNCHANGED <<recommendations, request, response>>

NextConc ==
    \/ \E c \in Customers \cup {Missing}, p \in Products \cup {Missing},
          f \in FeedbackValues : BeginFeedback(c, p, f)
    \/ \E i \in 1..Len(inflight) : RecallStep(i)
    \/ \E i \in 1..Len(inflight) : StoreStep(i)

SpecConc == InitStored /\ [][NextConc]_vars

-----------------------------------------------------------------------------
(* ProductAgent: the relevance scorer *)

\* dict.get(key, default)
Get(dict, key, default) == IF key \in DOMAIN dict THEN dict[key] ELSE default

\* the price range factor, in tenths; .get(price_sensitivity, 1.0)
price_factor(price_sensitivity) ==
    CASE price_sensitivity = "low"    -> 15
      [] price_sensitivity = "medium" -> 10
      [] price_sensitivity = "high"   -> 7
      [] OTHER                        -> 10

\* max(0, min(1, relevance_score))
clamp(relevance_score) ==
    IF relevance_score > 1000 THEN 1000
    ELSE IF relevance_score < 0 THEN 0
    ELSE relevance_score

\* the body of the loop of _filter_products_for_customer before the clamp:
\* the six adjustments applied one after the other
adjusted_score_high_threshold_strict(product, customer_data) ==
    LET price_sensitivity == Get(customer_data.insights, "price_sensitivity", "medium")
        s0 == Get(product, "recommendation_probability", 500)
        s1 == IF product.geographical_location = customer_data.location
              THEN s0 + 150 ELSE s0
        s2 == IF product.season = customer_data.season THEN s1 + 100 ELSE s1
        s3 == IF product.holiday = customer_data.holiday_shopping THEN s2 + 100 ELSE s2
        s4 == IF product.price * 10
                    <= Get(customer_data, "avg_order_value", 0)
                           * price_factor(price_sensitivity)
              THEN s3 + 100 ELSE s3 - 100
        s5 == IF product.product_rating > 40 THEN s4 + 100
              ELSE IF product.product_rating <= 20 THEN s4 - 100
              ELSE s4
        s6 == IF product.sentiment_score >= 7 THEN s5 + 50
              ELSE IF product.sentiment_score <= 3 THEN s5 - 50
              ELSE s5
    IN  s6

adjusted_score(product, customer_data) ==
    LET price_sensitivity == Get(customer_data.insights, "price_sensitivity", "medium")
        s0 == Get(product, "recommendation_probability", 500)
        s1 == IF product.geographical_location = customer_data.location
              THEN s0 + 150 ELSE s0
        s2 == IF product.season = customer_data.season THEN s1 + 100 ELSE s1
        s3 == IF product.holiday = customer_data.holiday_shopping THEN s2 + 100 ELSE s2
        s4 == IF product.price * 10
                    <= Get(customer_data, "avg_order_value", 0)
                           * price_factor(price_sensitivity)
              THEN s3 + 100 ELSE s3 - 100
        s5 == IF product.product_rating >= 40 THEN s4 + 100
              ELSE IF product.product_rating <= 20 THEN s4 - 100
              ELSE s4
        s6 == IF product.sentiment_score >= 7 THEN s5 + 50
              ELSE IF product.sentiment_score <= 3 THEN s5 - 50
              ELSE s5
    IN  s6

relevance_score_upper_bound_only(product, customer_data) ==
    IF adjusted_score(product, customer_data) > 1000 THEN 1000
    ELSE adjusted_score(product, customer_data)

relevance_score(product, customer_data) ==
    clamp(adjusted_score(product, customer_data))

\* _filter_products_for_customer: every product, copied, with its score
filter_products_for_customer(products, customer_data) ==
    [i \in 1..Len(products) |->
        [product |-> products[i],
         relevance_score |-> relevance_score(products[i], customer_data)]]

-----------------------------------------------------------------------------
(* State machine: the scorer applied to one product record and one context *)

Locations == {"Chennai", "Delhi"}
Seasons   == {"Winter", "Summer"}
Prices    == {7, 8, 15, 16}
OrderValues == {0, 10}
Ratings    == {20, 21, 39, 40}      \* tenths
Sentiments == {3, 4, 6, 7}          \* tenths
Probabilities == {0, 500, 1000}     \* thousandths

ProductRecords ==
    LET Known == [geographical_location : Locations, season : Seasons,
                  holiday : BOOLEAN, price : Prices,
                  product_rating : Ratings, sentiment_score : Sentiments]
    IN  {[k \in DOMAIN r \cup {"recommendation_probability"} |->
            IF k = "recommendation_probability" THEN q ELSE r[k]] :
                r \in Known, q \in Probabilities}
        \cup Known

Insights ==
    [price_sensitivity : {"low", "medium", "high"}] \cup {[notes |-> "none"]}

CustomerContexts ==
    [location : {"Chennai"}, season : {"Winter"}, holiday_shopping : BOOLEAN,
     avg_order_value : OrderValues, insights : Insights]

InitScorer ==
    /\ memory = [c \in Customers |-> None]
    /\ agent_memory = [c \in Customers |-> <<>>]
    /\ recommendations = <<>>
    /\ inflight = <<>>
    /\ response = NoResponse
    /\ request \in [action : {"filter_products"},
                    products : {<<r>> : r \in ProductRecords},
                    customer_data : CustomerContexts]

FilterProducts ==
    /\ request.action = "filter_products"
    /\ response = NoResponse
    /\ response' = [status |-> "scored",
                    products |-> filter_products_for_customer(request.products,
                                                              request.customer_data)]
    /\ UNCHANGED <<memory, agent_memory, recommendations, request, inflight>>

SpecScorer == InitScorer /\ [][FilterProducts]_vars

-----------------------------------------------------------------------------
(* State machine: the four engines run over one candidate list *)

MaxCands == 11        \* candidates in the list handed to the engines
MaxToys == 2          \* of them, candidates of the higher-ranked kind

\* the candidates come in two kinds: a Books product the scorer ranks lower
\* (0.9) and customers rate 3.0, a Toys product it ranks higher (0.95),
\* rated 4.5
CandidateKinds ==
    {[category |-> "Books", relevance_score |-> 900, product_rating |-> 30],
     [category |-> "Toys",  relevance_score |-> 950, product_rating |-> 45]}

EngineHistories == {<<>>, <<"Books">>, <<"Books", "Books">>}

\* product_id is the PRIMARY KEY of table products: the n-th candidate is PRn
product_id_of(n) == "PR" \o ToString(n)

InitEngines ==
    /\ memory = [c \in Customers |-> None]
    /\ agent_memory = [c \in Customers |-> <<>>]
    /\ recommendations = <<>>
    /\ inflight = <<>>
    /\ response = NoResponse
    /\ request \in [action : {"rank"},
                    customer_data : [customer_id : {"CU1"},
                                     customer_segment : {"Occasional Shopper"},
                                     browsing_history : EngineHistories,
                                     purchase_history : EngineHistories],
                    products : {<<>>}]

\* the product agent hands over one more scored product
AddCandidate(kind) ==
    /\ request.action = "rank"
    /\ Len(request.products) < MaxCands
    /\ kind.category = "Toys" =>
           Cardinality({i \in 1..Len(request.products) :
                           request.products[i].category = "Toys"}) < MaxToys
    /\ request' = [request EXCEPT !.products =
           Append(@, ScoredProduct(product_id_of(Len(request.products) + 1),
                                   kind.category, kind.relevance_score,
                                   kind.product_rating))]
    /\ response' = NoResponse
    /\ UNCHANGED <<memory, agent_memory, recommendations, inflight>>

\* each engine called on the list, as _hybrid_strategy and the dispatcher do
RunEngines ==
    /\ request.action = "rank"
    /\ response = NoResponse
    /\ response' =
           [status |-> "ranked",
            collaborative_filtering |->
                collaborative_filtering_strategy(request.customer_data, request.products),
            content_based |->
                content_based_strategy(request.customer_data, request.products),
            popularity_based |->
                popularity_based_strategy(request.customer_data, request.products),
            hybrid |-> hybrid_strategy(request.customer_data, request.products)]
    /\ UNCHANGED <<memory, agent_memory, recommendations, request, inflight>>

NextEngines ==
    \/ \E kind \in CandidateKinds : AddCandidate(kind)
    \/ RunEngines

SpecEngines == InitEngines /\ [][NextEngines]_vars

-----------------------------------------------------------------------------
(* Vocabulary of the properties *)

\* the customer's strategy preference as the two tiers hold it: the cached
\* value, else the most recent agent_memory row, else None
PreferenceIn(mem, db, c) ==
    IF mem[c] # None THEN mem[c]
    ELSE IF db[c] # <<>> THEN db[c][Len(db[c])]
    ELSE None

Preference(c) == PreferenceIn(memory, agent_memory, c)

\* the fixed cycle of the feedback rotation
CycleNext(s) ==
    CASE s = "collaborative_filtering" -> "content_based"
      [] s = "content_based"           -> "popularity_based"
      [] s = "popularity_based"        -> "hybrid"
      [] s = "hybrid"                  -> "collaborative_filtering"

\* the ordered policy of the selector for a customer context
PolicyChoice(stored, customer_data) ==
    CASE stored # None -> stored
      [] stored = None /\ customer_data.customer_segment = "New Visitor"
            -> "popularity_based"
      [] stored = None /\ customer_data.customer_segment = "Frequent Buyer"
            -> "collaborative_filtering"
      [] stored = None
         /\ customer_data.customer_segment \notin {"New Visitor", "Frequent Buyer"}
         /\ Len(customer_data.browsing_history) > Len(customer_data.purchase_history)
            -> "content_based"
      [] OTHER -> "hybrid"

IsSelection(req) == req.action = "generate_recommendations"

IsFeedback(req) == req.action = "feedback"

\* a feedback request that reaches the learner
ReachesLearner(req) ==
    /\ IsFeedback(req)
    /\ req.customer_id # Missing /\ req.product_id # Missing /\ req.feedback # 0

-----------------------------------------------------------------------------
(* C1: every selection returns the first match of the ordered policy: the    *)
(* customer's stored preference (cache or durable store) if there is one,    *)
(* else popularity_based for a New Visitor, else collaborative_filtering for *)
(* a Frequent Buyer, else content_based when the browsing history is         *)
(* strictly longer than the purchase history, else hybrid.                   *)
C1_OrderedPolicy ==
    [][IsSelection(request') =>
         response'.strategy =
             PolicyChoice(Preference(request'.customer_data.customer_id),
                          request'.customer_data)]_vars

\* a New Visitor whose preference sits only in the durable store got that
\* preference, not popularity_based
C1_Witness ==
    /\ IsSelection(request)
    /\ request.customer_data.customer_segment = "New Visitor"
    /\ response.strategy = "hybrid"
    /\ agent_memory[request.customer_data.customer_id] = <<"hybrid">>

(* C2: two consecutive selections for the same customer, with no feedback in *)
(* between, return the same strategy whatever segment and histories the      *)
(* second one carries.                                                       *)
C2_SelectionIdempotent ==
    [][(/\ IsSelection(request)
        /\ IsSelection(request')
        /\ request'.customer_data.customer_id = request.customer_data.customer_id)
       => response'.strategy = response.strategy]_vars

\* a New Visitor request answered with the strategy a first selection (as a
\* Frequent Buyer) had stored and no feedback has rotated since
C2_Witness ==
    /\ IsSelection(request)
    /\ request.customer_data.customer_segment = "New Visitor"
    /\ response.strategy = "collaborative_filtering"
    /\ agent_memory[request.customer_data.customer_id] = <<"collaborative_filtering">>

(* C3: a selection for a customer without preference writes the chosen       *)
(* strategy to the cache and to the durable store under that customer's key  *)
(* and nowhere else; a selection for a customer with a preference returns    *)
(* that preference and writes nothing.                                       *)
C3_FirstSelectionStored ==
    [][IsSelection(request') =>
         LET c == request'.customer_data.customer_id
         IN  IF Preference(c) = None
             THEN /\ memory' = [memory EXCEPT ![c] = response'.strategy]
                  /\ agent_memory' =
                         [agent_memory EXCEPT ![c] = <<response'.strategy>>]
             ELSE /\ response'.strategy = Preference(c)
                  /\ memory' = memory
                  /\ agent_memory' = agent_memory]_vars

\* a New Visitor's first selection: popularity_based, now in both tiers
C3_Witness ==
    /\ IsSelection(request)
    /\ request.customer_data.customer_segment = "New Visitor"
    /\ response.strategy = "popularity_based"
    /\ memory[request.customer_data.customer_id] = "popularity_based"
    /\ agent_memory[request.customer_data.customer_id] = <<"popularity_based">>

(* C4: a feedback below zero for a customer with a preference replaces the   *)
(* preference, in both tiers, by the next strategy of the fixed cycle, one   *)
(* position on, whatever the magnitude.                                      *)
C4_NegativeFeedbackRotates ==
    [][(/\ ReachesLearner(request')
        /\ request'.feedback < 0
        /\ Preference(request'.customer_id) # None)
       => LET c == request'.customer_id
          IN  /\ memory'[c] = CycleNext(Preference(c))
              /\ agent_memory'[c] = Append(agent_memory[c], CycleNext(Preference(c)))]_vars

\* feedback -2 on preference hybrid wrapped to collaborative_filtering
C4_Witness ==
    /\ IsFeedback(request)
    /\ request.feedback = -2
    /\ response.status = "feedback_recorded"
    /\ response.learner.status = "learned_from_feedback"
    /\ response.learner.previous_strategy = "hybrid"
    /\ memory[request.customer_id] = "collaborative_filtering"

(* C5: a feedback that is not below zero, or one for a customer without      *)
(* preference, leaves both tiers of the preference store as they were.       *)
C5_NoRotationOtherwise ==
    [][(/\ IsFeedback(request')
        /\ \/ request'.feedback >= 0
           \/ request'.customer_id = Missing
           \/ Preference(request'.customer_id) = None)
       => /\ agent_memory' = agent_memory
          /\ \A c \in Customers :
                PreferenceIn(memory', agent_memory', c) = Preference(c)]_vars

\* a positive feedback met a preference and kept it
C5_Witness ==
    /\ IsFeedback(request)
    /\ request.feedback = 1
    /\ response.status = "feedback_recorded"
    /\ response.learner.action_taken = "maintained_strategy"
    /\ response.learner.current_strategy = "content_based"
    /\ memory[request.customer_id] = "content_based"
    /\ agent_memory[request.customer_id] = <<"content_based">>

(* C6: in every step a preference that is set stays set, and it changes only *)
(* in a negative feedback for that very customer that the learner answers    *)
(* with a rotation.                                                          *)
C6_PreferencePersists ==
    [][\A c \in Customers :
         Preference(c) # None =>
            /\ PreferenceIn(memory', agent_memory', c) # None
            /\ PreferenceIn(memory', agent_memory', c) # Preference(c)
                 => /\ ReachesLearner(request')
                    /\ request'.customer_id = c
                    /\ request'.feedback < 0
                    /\ response'.learner.status = "learned_from_feedback"]_vars

\* a selection for CU1 as a New Visitor left CU1's rotated preference and
\* CU2's preference alone
C6_Witness ==
    /\ IsSelection(request)
    /\ request.customer_data.customer_id = "CU1"
    /\ request.customer_data.customer_segment = "New Visitor"
    /\ agent_memory["CU1"] = <<"hybrid", "collaborative_filtering">>
    /\ memory["CU1"] = "collaborative_filtering"
    /\ memory["CU2"] = "content_based"

RECURSIVE CycleNextTimes(_, _)
CycleNextTimes(s, n) == IF n = 0 THEN s ELSE CycleNextTimes(CycleNext(s), n - 1)

\* the negative feedbacks for customer c among the requests started
NegativeFeedbacks(c) ==
    Cardinality({i \in 1..Len(inflight) :
        /\ inflight[i].customer_id = c
        /\ inflight[i].product_id # Missing
        /\ inflight[i].feedback < 0})

AllDone == \A i \in 1..Len(inflight) : inflight[i].pc = "done"

-----------------------------------------------------------------------------
Scored == response.status = "scored"

TheProduct == request.products[1]

TheScore == response.products[1].relevance_score

(* C8: the relevance score attached to a product is between 0 and 1 for      *)
(* every product record and every customer context.                          *)
C8_ScoreBounded ==
    Scored => \A i \in 1..Len(response.products) :
                 /\ response.products[i].relevance_score >= 0
                 /\ response.products[i].relevance_score <= 1000

\* probability 0, nothing matches, price does not fit, rating 2.0 and
\* sentiment 0.3: the sum -0.25 is scored 0
C8_Witness ==
    /\ Scored
    /\ "recommendation_probability" \in DOMAIN TheProduct
    /\ TheProduct.recommendation_probability = 0
    /\ TheProduct.geographical_location # request.customer_data.location
    /\ TheProduct.season # request.customer_data.season
    /\ TheProduct.holiday # request.customer_data.holiday_shopping
    /\ request.customer_data.avg_order_value = 0
    /\ TheProduct.product_rating = 20
    /\ TheProduct.sentiment_score = 3
    /\ TheScore = 0

\* the multiplier the claim gives for a price sensitivity, in tenths
ClaimMultiplier(sensitivity) ==
    CASE sensitivity = "low" -> 15 [] sensitivity = "medium" -> 10
      [] sensitivity = "high" -> 7

\* the sum the claim describes, for a context that states its sensitivity
ClaimSum(product, customer) ==
    (IF "recommendation_probability" \in DOMAIN product
     THEN product.recommendation_probability ELSE 500)
    + (IF product.geographical_location = customer.location THEN 150 ELSE 0)
    + (IF product.season = customer.season THEN 100 ELSE 0)
    + (IF product.holiday = customer.holiday_shopping THEN 100 ELSE 0)
    + (IF product.price * 10
            <= customer.avg_order_value * ClaimMultiplier(customer.insights.price_sensitivity)
       THEN 100 ELSE -100)
    + (IF product.product_rating >= 40 THEN 100 ELSE 0)
    + (IF product.product_rating <= 20 THEN -100 ELSE 0)
    + (IF product.sentiment_score >= 7 THEN 50 ELSE 0)
    + (IF product.sentiment_score <= 3 THEN -50 ELSE 0)

ClaimClamp(x) == IF x < 0 THEN 0 ELSE IF x > 1000 THEN 1000 ELSE x

(* C9: for a context whose price sensitivity is low, medium or high the      *)
(* score is the sum of the base probability (0.5 when absent) and the six    *)
(* adjustments, clamped once to [0,1].                                       *)
C9_ScoreFormula ==
    (Scored /\ "price_sensitivity" \in DOMAIN request.customer_data.insights)
        => TheScore = ClaimClamp(ClaimSum(TheProduct, request.customer_data))

\* no stored probability (0.5), location and holiday match, price 7 fits
\* 10 * 0.7, rating 4.0, sentiment 0.3: 0.5+0.15+0.1+0.1+0.1-0.05 = 0.9
C9_Witness ==
    /\ Scored
    /\ "recommendation_probability" \notin DOMAIN TheProduct
    /\ TheProduct.geographical_location = request.customer_data.location
    /\ TheProduct.season # request.customer_data.season
    /\ TheProduct.holiday = request.customer_data.holiday_shopping
    /\ "price_sensitivity" \in DOMAIN request.customer_data.insights
    /\ request.customer_data.insights.price_sensitivity = "high"
    /\ TheProduct.price = 7
    /\ request.customer_data.avg_order_value = 10
    /\ TheProduct.product_rating = 40
    /\ TheProduct.sentiment_score = 3
    /\ TheScore = 900

-----------------------------------------------------------------------------
Ranked == response.status = "ranked"

InList(recs, id) == \E i \in 1..Len(recs) : recs[i].product_id = id

\* a product's score in an engine's output, 0 when the output lacks it
ScoreIn(recs, id) ==
    IF InList(recs, id)
    THEN recs[CHOOSE i \in 1..Len(recs) : recs[i].product_id = id].score
    ELSE 0

(* C10: every score the hybrid engine returns is 0.4 times the product's     *)
(* score in the collaborative output plus 0.4 times its score in the         *)
(* content-based output plus 0.2 times its score in the popularity output,   *)
(* an output (of at most 10 products) that lacks the product counting 0.     *)
C10_HybridBlend ==
    Ranked =>
        \A i \in 1..Len(response.hybrid) :
            LET id == response.hybrid[i].product_id
            IN  10 * response.hybrid[i].score =
                    4 * ScoreIn(response.collaborative_filtering, id)
                  + 4 * ScoreIn(response.content_based, id)
                  + 2 * ScoreIn(response.popularity_based, id)

\* more candidates than an engine returns: the hybrid list holds a product
\* all three outputs hold and one the content-based output dropped
C10_Witness ==
    /\ Ranked
    /\ Len(request.products) > TopN
    /\ \E i \in 1..Len(response.hybrid) :
          LET id == response.hybrid[i].product_id
          IN  /\ InList(response.collaborative_filtering, id)
              /\ InList(response.content_based, id)
              /\ InList(response.popularity_based, id)
              /\ response.hybrid[i].score = 940
    /\ \E i \in 1..Len(response.hybrid) :
          LET id == response.hybrid[i].product_id
          IN  /\ InList(response.collaborative_filtering, id)
              /\ ~InList(response.content_based, id)
              /\ InList(response.popularity_based, id)
              /\ response.hybrid[i].score = 560

-----------------------------------------------------------------------------
EngineOutputs ==
    {response.collaborative_filtering, response.content_based,
     response.popularity_based, response.hybrid}

\* the candidate of the request that carries a product_id
Candidate(id) ==
    request.products[CHOOSE k \in 1..Len(request.products) :
                        request.products[k].product_id = id]

\* the position of that candidate in the list handed to the engines
InputIndex(id) ==
    CHOOSE k \in 1..Len(request.products) : request.products[k].product_id = id

\* recs is in descending order of score
Descending(recs) ==
    \A i \in 1..Len(recs) : \A j \in (i + 1)..Len(recs) :
        recs[i].score >= recs[j].score

\* recs holds one entry per candidate, up to the engines' limit
ReturnsCandidates(recs) ==
    /\ Len(recs) = Min(Len(request.products), TopN)
    /\ \A i \in 1..Len(recs) : \A j \in (i + 1)..Len(recs) :
           recs[i].product_id # recs[j].product_id

(* C11: every score in the list returned by the collaborative, the          *)
(* content-based, the popularity and the hybrid engine lies in [0,1], the    *)
(* candidates having a relevance_score in [0,1] and a rating in [0,5].       *)
C11_EngineScoresBounded ==
    Ranked =>
        \A recs \in EngineOutputs : \A i \in 1..Len(recs) :
            recs[i].score >= 0 /\ recs[i].score <= 1000

(* C12: the popularity engine returns the candidates by product_rating       *)
(* descending, candidates of equal rating in their input order, each with    *)
(* the score product_rating / 5.0.                                           *)
C12_PopularityOrder ==
    Ranked =>
        LET recs == response.popularity_based
        IN  /\ ReturnsCandidates(recs)
            /\ \A i \in 1..Len(recs) :
                  /\ InList(request.products, recs[i].product_id)
                  /\ 5 * recs[i].score
                        = 100 * Candidate(recs[i].product_id).product_rating
            /\ \A i \in 1..Len(recs) : \A j \in (i + 1)..Len(recs) :
                  LET a == Candidate(recs[i].product_id)
                      b == Candidate(recs[j].product_id)
                  IN  \/ a.product_rating > b.product_rating
                      \/ /\ a.product_rating = b.product_rating
                         /\ InputIndex(a.product_id) < InputIndex(b.product_id)

\* ratings 4.5 and 3.0 give 0.9 then 0.6, and two products rated alike
\* follow each other as they came in
C12_Witness ==
    /\ Ranked
    /\ Len(response.popularity_based) >= 3
    /\ request.products[1].product_rating = 30
    /\ \E i \in 1..(Len(response.popularity_based) - 1) :
          /\ response.popularity_based[i].score = 900
          /\ response.popularity_based[i + 1].score = 600
    /\ \E i \in 1..(Len(response.popularity_based) - 1) :
          /\ response.popularity_based[i].score
                = response.popularity_based[i + 1].score
          /\ InputIndex(response.popularity_based[i].product_id)
                < InputIndex(response.popularity_based[i + 1].product_id)

\* the boosts the claim describes for a candidate
ClaimContentScore(customer, product) ==
    product.relevance_score
      + (IF \E k \in 1..Len(customer.browsing_history) :
                customer.browsing_history[k] = product.category
         THEN 100 ELSE 0)
      + (IF \E k \in 1..Len(customer.purchase_history) :
                customer.purchase_history[k] = product.category
         THEN 150 ELSE 0)

(* C13: the content-based engine scores a candidate relevance_score, plus    *)
(* 0.10 if its category occurs in the browsing history, plus 0.15 if it      *)
(* occurs in the purchase history, each boost once however often the         *)
(* category occurs, and returns the candidates by that score descending.     *)
C13_ContentScore ==
    Ranked =>
        LET recs == response.content_based
        IN  /\ ReturnsCandidates(recs)
            /\ \A i \in 1..Len(recs) :
                  /\ InList(request.products, recs[i].product_id)
                  /\ recs[i].score
                        = ClaimContentScore(request.customer_data,
                                            Candidate(recs[i].product_id))
            /\ Descending(recs)

\* the category twice in the browsing history and in the purchase history:
\* 0.9 + 0.10 + 0.15 ranks the Books product before the Toys product (0.95)
C13_Witness ==
    /\ Ranked
    /\ request.customer_data.browsing_history = <<"Books", "Books">>
    /\ request.customer_data.purchase_history = <<"Books">>
    /\ Len(response.content_based) >= 2
    /\ request.products[1].category = "Toys"
    /\ response.content_based[1].category = "Books"
    /\ response.content_based[1].score = 1150
    /\ \E i \in 2..Len(response.content_based) :
          response.content_based[i].score = 950

(* C14: the collaborative-filtering engine returns the candidates by         *)
(* relevance_score descending, each with its relevance_score as score.       *)
C14_CollaborativeOrder ==
    Ranked =>
        LET recs == response.collaborative_filtering
        IN  /\ ReturnsCandidates(recs)
            /\ \A i \in 1..Len(recs) :
                  /\ InList(request.products, recs[i].product_id)
                  /\ recs[i].score = Candidate(recs[i].product_id).relevance_score
            /\ Descending(recs)

\* a lower-ranked candidate came in first and is returned after a higher one
C14_Witness ==
    /\ Ranked
    /\ Len(response.collaborative_filtering) >= 2
    /\ request.products[1].relevance_score = 900
    /\ response.collaborative_filtering[1].score = 950
    /\ response.collaborative_filtering[1].product_id # request.products[1].product_id
    /\ \E i \in 2..Len(response.collaborative_filtering) :
          response.collaborative_filtering[i].product_id
              = request.products[1].product_id

\* the products of the merged union of the three sub-engine outputs
MergedUnion ==
    {response.collaborative_filtering[i].product_id :
        i \in 1..Len(response.collaborative_filtering)}
    \cup {response.content_based[i].product_id :
        i \in 1..Len(response.content_based)}
    \cup {response.popularity_based[i].product_id :
        i \in 1..Len(response.popularity_based)}

\* ten times the final score of a product of the merged union
FinalScore10(id) ==
      4 * ScoreIn(response.collaborative_filtering, id)
    + 4 * ScoreIn(response.content_based, id)
    + 2 * ScoreIn(response.popularity_based, id)

(* C15: every engine returns at most 10 recommendations, and the hybrid     *)
(* output is the 10 highest final scores of the merged union of the three   *)
(* sub-engine outputs, in descending order of final score.                  *)
C15_TopTen ==
    Ranked =>
        /\ \A recs \in EngineOutputs : Len(recs) <= TopN
        /\ LET recs == response.hybrid
               ids  == {recs[i].product_id : i \in 1..Len(recs)}
           IN  /\ ids \subseteq MergedUnion
               /\ Cardinality(ids) = Len(recs)
               /\ Len(recs) = Min(Cardinality(MergedUnion), TopN)
               /\ Descending(recs)
               /\ \A i \in 1..Len(recs) :
                     10 * recs[i].score = FinalScore10(recs[i].product_id)
               /\ \A id \in MergedUnion \ ids : \A i \in 1..Len(recs) :
                     10 * recs[i].score >= FinalScore10(id)

\* eleven candidates, the sub-engines dropping different ones: the union
\* holds eleven products and the hybrid output leaves the lowest one out
C15_Witness ==
    /\ Ranked
    /\ Len(request.products) > TopN
    /\ Len(response.collaborative_filtering) = TopN
    /\ Cardinality(MergedUnion) > TopN
    /\ Len(response.hybrid) = TopN
    /\ \E id \in MergedUnion :
          /\ ~InList(response.hybrid, id)
          /\ FinalScore10(id) < 10 * response.hybrid[TopN].score
    /\ response.hybrid[1].score > response.hybrid[TopN].score

-----------------------------------------------------------------------------
(* C16: over an empty candidate set each of the four engines returns an      *)
(* empty list, and a recommendation request over it returns a result with    *)
(* an empty list and persists no recommendation.                             *)
C16_EmptyCandidates ==
    [][(IsSelection(request') /\ request'.products = <<>>)
       => /\ \A s \in StrategyNames :
                run_strategy(s, request'.customer_data, request'.products) = <<>>
          /\ response'.status = "ok"
          /\ response'.recommendations = <<>>
          /\ recommendations' = recommendations]_vars

\* a request served by the hybrid engine, which calls the other three
C16_Witness ==
    /\ IsSelection(request)
    /\ request.products = <<>>
    /\ response.status = "ok"
    /\ response.strategy = "hybrid"
    /\ response.recommendations = <<>>
    /\ recommendations = <<>>

-----------------------------------------------------------------------------
(* CoordinatorAgent.process: the recommendation pipeline behind             *)
(* POST /recommendations, one request at a time.  The handler blocks in     *)
(* OllamaClient.generate three times: for the customer's insights, for the  *)
(* product selection's explanation and for the recommendations'             *)
(* explanation; the answer of the LLM server is a step of the environment.  *)

\* table customers: the one customer on file
customers ==
    [c \in {"CU1"} |->
        [customer_id |-> c, customer_segment |-> "Occasional Shopper",
         browsing_history |-> <<"Books">>, purchase_history |-> <<>>]]

\* CustomerAgent.process with action analyze_profile: the analysis of the
\* customer on file, an error dict for a customer_id db.get_customer lacks
customer_agent_process(customer_id) ==
    IF customer_id \notin DOMAIN customers
    THEN [error |-> "Customer not found"]
    ELSE [customer_id      |-> customers[customer_id].customer_id,
          customer_segment |-> customers[customer_id].customer_segment,
          browsing_history |-> customers[customer_id].browsing_history,
          purchase_history |-> customers[customer_id].purchase_history]

\* the fields the recommendation agent reads of customer_data, each with the
\* default of its customer_data.get(...)
customer_data_read(customer_data) ==
    [customer_id      |-> Get(customer_data, "customer_id", None),
     customer_segment |-> Get(customer_data, "customer_segment", Missing),
     browsing_history |-> Get(customer_data, "browsing_history", <<>>),
     purchase_history |-> Get(customer_data, "purchase_history", <<>>)]

\* what the LLM server does with a request it answers: 200 with a text, a
\* status other than 200, or a failure of the connection
LLMOutcomes == {"ok", "status", "exception"}

\* OllamaClient.generate: every outcome is turned into a returned text, the
\* except clause catching every Exception
generate(outcome) ==
    CASE outcome = "ok" ->
            [raised |-> FALSE, text |-> "llm response"]
      [] outcome = "status" ->
            [raised |-> FALSE,
             text   |-> "Sorry, I couldn't generate a response at this time."]
      [] outcome = "exception" ->
            [raised |-> FALSE,
             text   |-> "Sorry, there was an error communicating with the language model."]

\* the fallback sentence of _generate_recommendation_explanation
fallback_explanation(customer_segment) ==
    "These products were selected based on your browsing and purchase history, as well as your preferences as a "
        \o customer_segment

\* _generate_recommendation_explanation: try get_llm_response, except fallback
generate_recommendation_explanation(llm, customer_data) ==
    IF llm.raised
    THEN fallback_explanation(customer_data_read(customer_data).customer_segment)
    ELSE llm.text

\* the product lists ProductAgent.process hands over for the customer on file
PipelineProducts ==
    {<<>>,
     <<ScoredProduct("PR1", "Books", 900, 30)>>,
     <<ScoredProduct("PR1", "Books", 900, 30),
       ScoredProduct("PR2", "Toys", 950, 45)>>}

MemoryKeys == Customers \cup {None}    \* strategy_preference_<customer_id>

InitPipeline ==
    /\ memory = [k \in MemoryKeys |-> None]
    /\ agent_memory = [k \in MemoryKeys |-> <<>>]
    /\ recommendations = <<>>
    /\ request = NoRequest
    /\ response = NoResponse
    /\ inflight = <<>>

Pending == response.status = "pending"

\* RecommendationAgent.process (generate_recommendations) as the pipeline
\* runs it: select and store the strategy, run the engine, INSERT the rows
\* one by one, each committed by execute_query on its own, then block in the
\* LLM call for the explanation.  fail_at = k > 0: execute_query raises in the
\* k-th INSERT, which the API handler turns into a 500 answer.
RecommendationStep(customer_data, products, fail_at) ==
    LET cd       == customer_data_read(customer_data)
        selected == select_recommendation_strategy(memory, agent_memory, cd)
        strategy == selected.ret
        recs     == run_strategy(strategy, cd, products)
        rows     == recommendation_rows(cd.customer_id, recs)
    IN  /\ fail_at \in 0..Len(rows)
        /\ memory' = selected.memory
        /\ agent_memory' = selected.agent_memory
        /\ IF fail_at > 0
           THEN /\ recommendations' = recommendations \o SubSeq(rows, 1, fail_at - 1)
                /\ response' = [status |-> "error", code |-> 500]
           ELSE /\ recommendations' = recommendations \o rows
                /\ response' = [status |-> "pending", stage |-> "explanation",
                                strategy |-> strategy, recommendations |-> recs]
        /\ Len(recommendations') <= MaxRecRows

\* POST /recommendations arrives: coordinator.process up to its first LLM call
ProcessRequest(customer_id, products) ==
    /\ ~Pending
    /\ inflight' = inflight
    /\ IF ~Truthy(customer_id)
       THEN /\ products = <<>>
            /\ request' = [action |-> "recommendation", customer_id |-> customer_id,
                           products |-> products, llm |-> None]
            /\ response' = [status |-> "error", code |-> 400]
            /\ UNCHANGED <<memory, agent_memory, recommendations>>
       ELSE IF customer_id \notin DOMAIN customers
       THEN \* the error dict has no relevant_categories: no products, and
            \* the pipeline goes on with it as customer_data
            /\ products = <<>>
            /\ request' = [action |-> "recommendation", customer_id |-> customer_id,
                           products |-> products, llm |-> None]
            /\ RecommendationStep(customer_agent_process(customer_id), products, 0)
       ELSE /\ request' = [action |-> "recommendation", customer_id |-> customer_id,
                           products |-> products, llm |-> None]
            /\ response' = [status |-> "pending", stage |-> "analyze_profile"]
            /\ UNCHANGED <<memory, agent_memory, recommendations>>

\* the LLM server answers the call the handler is blocked in, and the handler
\* runs on to its next LLM call or to its return
LLMAnswer(outcome, fail_at) ==
    /\ Pending
    /\ inflight' = inflight
    /\ request' = [request EXCEPT !.llm = outcome]
    /\ LET customer_data == customer_agent_process(request.customer_id)
       IN  CASE response.stage = "analyze_profile" /\ request.products # <<>> ->
                    /\ fail_at = 0
                    /\ response' = [status |-> "pending", stage |-> "product_selection"]
                    /\ UNCHANGED <<memory, agent_memory, recommendations>>
             [] response.stage = "analyze_profile" /\ request.products = <<>> ->
                    RecommendationStep(customer_data, request.products, fail_at)
             [] response.stage = "product_selection" ->
                    RecommendationStep(customer_data, request.products, fail_at)
             [] response.stage = "explanation" ->
                    /\ fail_at = 0
                    /\ response' =
                           [status |-> "ok",
                            customer_id |-> request.customer_id,
                            customer_segment |->
                                Get(customer_data, "customer_segment", None),
                            recommendations |-> response.recommendations,
                            explanation |->
                                generate_recommendation_explanation(
                                    generate(outcome), customer_data)]
                    /\ UNCHANGED <<memory, agent_memory, recommendations>>

NextPipeline ==
    \/ \E c \in Customers \cup {Missing}, products \in PipelineProducts :
          ProcessRequest(c, products)
    \/ \E outcome \in LLMOutcomes,
          fail_at \in 0..Len(Get(request, "products", <<>>)) :
          LLMAnswer(outcome, fail_at)

SpecPipeline == InitPipeline /\ [][NextPipeline]_vars

\* the handler's own steps are taken when enabled; whether the LLM server
\* ever answers is left open
SpecPipelineLive ==
    SpecPipeline
    /\ WF_vars(\E c \in Customers \cup {Missing}, products \in PipelineProducts :
                  ProcessRequest(c, products))

-----------------------------------------------------------------------------
\* a step in which the handler takes up a recommendation request
TakesUp(id) ==
    /\ ~Pending
    /\ request'.action = "recommendation"
    /\ request'.customer_id = id

(* C17: a recommendation request for a customer_id that is not on file is    *)
(* answered with an error, and writes no strategy preference and no          *)
(* recommendation row.                                                       *)
C17_UnknownCustomerRejected ==
    [][\A id \in Customers \ DOMAIN customers :
          TakesUp(id)
             => /\ response'.status = "error"
                /\ memory' = memory
                /\ agent_memory' = agent_memory
                /\ recommendations' = recommendations]_vars

(* C18: a request that ends in an error leaves none of its durable writes    *)
(* behind: the step that reports the error has stored no strategy            *)
(* preference and no recommendation row.                                     *)
C18_ErrorBeforePersistence ==
    [][response'.status = "error"
          => /\ agent_memory' = agent_memory
             /\ recommendations' = recommendations]_vars

\* the templated sentence naming the segment of the request's customer
ClaimFallbackSentence ==
    "These products were selected based on your browsing and purchase history, as well as your preferences as a "
        \o (IF request.customer_id \in DOMAIN customers
            THEN customers[request.customer_id].customer_segment
            ELSE Missing)

(* C19: when the LLM call for the explanation fails (an answer other than    *)
(* 200, an exception), the request succeeds with its recommendations and     *)
(* the explanation is the templated fallback sentence naming the segment.    *)
C19_FallbackExplanation ==
    (/\ request.action = "recommendation"
     /\ response.status = "ok"
     /\ request.llm \in {"status", "exception"})
        => response.explanation = ClaimFallbackSentence

(* C20: every recommendation request eventually returns a result, also when  *)
(* the LLM server never answers: a handler blocked in the LLM call comes     *)
(* back.                                                                     *)
C20_EventuallyReturns == Pending ~> ~Pending

-----------------------------------------------------------------------------
(* State machine: recommendation rows and the feedback on them.  One agent  *)
(* instance serves recommendation requests over non-empty candidate lists  *)
(* and feedback requests of every customer and product.                     *)

RowsProducts == {"PR1", "PR2"}

RowsFeedbackValues == {-1, 0, 1}     \* the three states of column feedback

RowsCandidateLists ==
    {<<>>,
     <<ScoredProduct("PR1", "Books", 900, 30)>>,
     <<ScoredProduct("PR1", "Books", 900, 30),
       ScoredProduct("PR2", "Toys", 950, 45)>>}

RowsCustomerData ==
    [customer_id : Customers, customer_segment : {"New Visitor"},
     browsing_history : {<<>>}, purchase_history : {<<>>}]

NextRows ==
    \/ \E cd \in RowsCustomerData, products \in RowsCandidateLists :
          Recommend(cd, products)
    \/ \E c \in Customers \cup {Missing}, p \in RowsProducts \cup {Missing},
          f \in RowsFeedbackValues : Feedback(c, p, f)

SpecRows == Init /\ [][NextRows]_vars

-----------------------------------------------------------------------------
\* the rows of table recommendations for a (customer, product) pair
RowsOf(rows, c, p) ==
    {i \in 1..Len(rows) : rows[i].customer_id = c /\ rows[i].product_id = p}

C22_FeedbackRecorded ==
    (IsFeedback(request) /\ response.status = "feedback_recorded")
        => LET rows == RowsOf(recommendations, request.customer_id, request.product_id)
           IN  /\ rows # {}
               /\ \A i \in rows : recommendations[i].feedback = request.feedback

(* C24: a feedback request with a missing customer_id or a missing           *)
(* product_id returns an error and changes nothing: no feedback field, no    *)
(* cached and no stored strategy preference.                                 *)
C24_MissingIdRejected ==
    [][(/\ IsFeedback(request')
        /\ (request'.customer_id = Missing \/ request'.product_id = Missing))
       => /\ response'.status = "error"
          /\ recommendations' = recommendations
          /\ memory' = memory
          /\ agent_memory' = agent_memory]_vars

\* a negative feedback without product_id, for a customer with a preference
\* and a recommendation row: the error answer, row and preference as before
C24_Witness ==
    /\ IsFeedback(request)
    /\ request.customer_id = "CU1" /\ request.product_id = Missing
    /\ request.feedback = -1
    /\ response.status = "error"
    /\ memory["CU1"] = "popularity_based"
    /\ agent_memory["CU1"] = <<"popularity_based">>
    /\ Len(recommendations) = 1
    /\ recommendations[1].customer_id = "CU1"
    /\ recommendations[1].feedback = 0

-----------------------------------------------------------------------------
(* State machine: one agent instance over a store in which an earlier       *)
(* version of the program left strategy names this version does not know.   *)

LegacyStrategy == "weighted_hybrid"

InitLegacy ==
    /\ memory = [c \in Customers |-> None]
    /\ agent_memory \in [Customers -> {<<>>, <<LegacyStrategy>>}]
    /\ recommendations = <<>>
    /\ request = NoRequest
    /\ response = NoResponse
    /\ inflight = <<>>

SpecLegacy == InitLegacy /\ [][NextRows]_vars

(* C23: when the stored strategy name is not one of the four known names,   *)
(* recommendation generation runs the hybrid engine and returns its         *)
(* recommendations instead of failing.                                      *)
C23_UnknownNameRunsHybrid ==
    [][(/\ IsSelection(request')
        /\ Preference(request'.customer_data.customer_id)
              \notin StrategyNames \cup {None})
       => /\ response'.status = "ok"
          /\ response'.recommendations
                = hybrid_strategy(request'.customer_data, request'.products)]_vars

\* the unknown name was selected for one candidate (relevance 0.9, rating
\* 3.0): the blend 0.4*0.9 + 0.4*0.9 + 0.2*0.6 = 0.84 no other engine gives
C23_Witness ==
    /\ IsSelection(request)
    /\ response.status = "ok"
    /\ response.strategy = LegacyStrategy
    /\ Len(response.recommendations) = 1
    /\ response.recommendations[1].score = 840
    /\ Len(recommendations) = 1
    /\ recommendations[1].score = 840

-----------------------------------------------------------------------------
(* C30: from an empty preference store, after any sequence of                *)
(* recommendation and feedback requests every stored strategy preference,    *)
(* cached or durable, is one of the four strategy names, and so is every     *)
(* name the dispatcher and the learner are given.                            *)
C30_KnownNamesOnly ==
    /\ \A c \in Customers :
          /\ memory[c] \in StrategyNames \cup {None}
          /\ \A i \in 1..Len(agent_memory[c]) : agent_memory[c][i] \in StrategyNames
    /\ IsSelection(request) => response.strategy \in StrategyNames
    /\ (IsFeedback(request) /\ response.status = "feedback_recorded"
        /\ response.learner.status = "learned_from_feedback")
          => /\ response.learner.previous_strategy \in StrategyNames
             /\ response.learner.new_strategy \in StrategyNames

\* a customer whose default selection was rotated twice, past the wrap
C30_Witness ==
    /\ IsFeedback(request)
    /\ response.status = "feedback_recorded"
    /\ response.learner.status = "learned_from_feedback"
    /\ agent_memory[request.customer_id]
          = <<"popularity_based", "hybrid", "collaborative_filtering">>
    /\ memory[request.customer_id] = "collaborative_filtering"

-----------------------------------------------------------------------------
(* State machine: the two tiers of the agent memory under restarts of the   *)
(* process and failures of the durable write.  The requests are those of    *)
(* Spec for one customer; in addition the server process may be started     *)
(* anew over the same database, and the INSERT of store_memory may raise.   *)

\* a new process: api/main.py builds a new CoordinatorAgent, whose agents
\* start with an empty cache over the database as it is
Restart ==
    /\ memory' = [c \in Customers |-> None]
    /\ request' = [action |-> "restart"]
    /\ response' = NoResponse
    /\ UNCHANGED <<agent_memory, recommendations, inflight>>

\* a recommendation request whose first selection fails in store_memory:
\* the cache is written, then execute_query raises in the INSERT and the
\* request is answered with a 500
RecommendStoreFails(customer_data) ==
    LET key      == customer_data.customer_id
        recalled == recall_memory(memory, agent_memory, key)
    IN  /\ ~Truthy(recalled.ret)
        /\ memory' = [recalled.memory EXCEPT ![key] = segment_policy(customer_data)]
        /\ request' = [action |-> "generate_recommendations",
                       customer_data |-> customer_data, products |-> <<>>]
        /\ response' = [status |-> "error", code |-> 500]
        /\ UNCHANGED <<agent_memory, recommendations, inflight>>

\* a feedback request whose rotation fails in store_memory: the UPDATE is
\* committed, the cache holds the next strategy, the INSERT raises
FeedbackStoreFails(customer_id, product_id, feedback) ==
    LET recalled == recall_memory(memory, agent_memory, customer_id)
        current  == recalled.ret
    IN  /\ Truthy(customer_id) /\ Truthy(product_id) /\ TruthyNumber(feedback)
        /\ feedback < 0 /\ Truthy(current)
        /\ recommendations' =
               update_feedback(recommendations, customer_id, product_id, feedback)
        /\ memory' = [recalled.memory EXCEPT ![customer_id] = next_strategy(current)]
        /\ request' = [action |-> "feedback", customer_id |-> customer_id,
                       product_id |-> product_id, feedback |-> feedback]
        /\ response' = [status |-> "error", code |-> 500]
        /\ UNCHANGED <<agent_memory, inflight>>

\* the requests of this state machine: those of customer CU1
StoreCustomerData ==
    [customer_id : {"CU1"}, customer_segment : {"New Visitor", "Occasional Shopper"},
     browsing_history : {<<>>}, purchase_history : {<<>>}]

NextStore ==
    \/ \E cd \in StoreCustomerData, products \in CandidateLists : Recommend(cd, products)
    \/ \E c \in {"CU1", Missing}, p \in Products \cup {Missing},
          f \in RowsFeedbackValues : Feedback(c, p, f)
    \/ Restart
    \/ \E cd \in StoreCustomerData : RecommendStoreFails(cd)
    \/ \E c \in {"CU1"}, p \in Products, f \in RowsFeedbackValues :
          FeedbackStoreFails(c, p, f)

SpecStore == Init /\ [][NextStore]_vars

-----------------------------------------------------------------------------
\* a step that looks up the preference of customer c and answers normally: a
\* selection, or a feedback that reaches the learner
LooksUp(c) ==
    \/ /\ IsSelection(request') /\ response'.status = "ok"
       /\ request'.customer_data.customer_id = c
    \/ /\ ReachesLearner(request') /\ response'.status = "feedback_recorded"
       /\ request'.customer_id = c

\* the value that lookup returned, for a customer with a stored preference
LookedUp ==
    IF IsSelection(request') THEN response'.strategy
    ELSE IF response'.learner.status = "learned_from_feedback"
         THEN response'.learner.previous_strategy
         ELSE response'.learner.current_strategy

\* the values the durable store holds for c
StoredValues(c) == {agent_memory[c][i] : i \in 1..Len(agent_memory[c])}

(* C25: a preference lookup that misses the cache and is served from the     *)
(* durable store returns the value most recently written for the customer.   *)
C25_LatestValueServed ==
    [][\A c \in Customers :
          (LooksUp(c) /\ memory[c] = None /\ agent_memory[c] # <<>>)
             => LookedUp = agent_memory[c][Len(agent_memory[c])]]_vars

(* C26: a lookup of a key the cache holds returns the cached value, whatever *)
(* the durable store holds; the first lookup that misses the cache takes its *)
(* value from the durable store and leaves it in the cache; a lookup that    *)
(* finds nothing in either returns no value and leaves the cache without the *)
(* key.                                                                      *)
C26_CacheAuthoritative ==
    [][\A c \in Customers :
          LooksUp(c) =>
             /\ memory[c] # None => LookedUp = memory[c]
             /\ (memory[c] = None /\ agent_memory[c] # <<>>)
                   => /\ LookedUp \in StoredValues(c)
                      /\ agent_memory'[c] = agent_memory[c] => memory'[c] = LookedUp
             /\ (memory[c] = None /\ agent_memory[c] = <<>> /\ IsFeedback(request'))
                   => /\ LookedUp = None
                      /\ memory'[c] = None
                      /\ agent_memory'[c] = <<>>]_vars

\* a rotation whose durable write failed moved the cache alone: the next
\* selection returns the cached value, which the durable store does not hold
C26_Witness ==
    /\ IsSelection(request)
    /\ response.status = "ok"
    /\ response.strategy = "hybrid"
    /\ memory["CU1"] = "hybrid"
    /\ agent_memory["CU1"] = <<"popularity_based">>

(* C29: in every reachable state a key the cache holds has the value of the  *)
(* most recent durable write for that key, also after a store operation      *)
(* whose durable write failed.                                               *)
C29_CacheMatchesStore ==
    \A c \in Customers :
        memory[c] # None
           => /\ agent_memory[c] # <<>>
              /\ memory[c] = agent_memory[c][Len(agent_memory[c])]

-----------------------------------------------------------------------------
(* CustomerAgent and ProductAgent: the analysis handed to the scorer *)

\* Python values of the types json.loads can return, by type
PyStr(s)      == [type |-> "str", str |-> s]
PyInt(n)      == [type |-> "int", int |-> n]
PyList(items) == [type |-> "list", list |-> items]
PyDict(items) == [type |-> "dict", items |-> items]

\* texts get_llm_response can return for the insight prompt: the two apology
\* sentences of OllamaClient.generate, prose, and JSON texts of several shapes
InsightTexts ==
    {generate("status").text, generate("exception").text,
     "Here are the insights you asked for.",
     "{\"price_sensitivity\": \"high\"}",
     "{\"price_sensitivity\": \"low\"}",
     "{\"primary_interests\": [\"Books\"]}",
     "{\"price_sensitivity\": 3}",
     "{\"price_sensitivity\": [\"high\"]}",
     "[\"high\"]",
     "\"high\"",
     "3"}

\* json.loads(insights_text): the value of a JSON text, JSONDecodeError for
\* any other text
json_loads_insights(insights_text) ==
    CASE insights_text = "{\"price_sensitivity\": \"high\"}" ->
            [raised |-> FALSE,
             value  |-> PyDict([price_sensitivity |-> PyStr("high")])]
      [] insights_text = "{\"price_sensitivity\": \"low\"}" ->
            [raised |-> FALSE,
             value  |-> PyDict([price_sensitivity |-> PyStr("low")])]
      [] insights_text = "{\"primary_interests\": [\"Books\"]}" ->
            [raised |-> FALSE,
             value  |-> PyDict([primary_interests |-> PyList(<<PyStr("Books")>>)])]
      [] insights_text = "{\"price_sensitivity\": 3}" ->
            [raised |-> FALSE,
             value  |-> PyDict([price_sensitivity |-> PyInt(3)])]
      [] insights_text = "{\"price_sensitivity\": [\"high\"]}" ->
            [raised |-> FALSE,
             value  |-> PyDict([price_sensitivity |-> PyList(<<PyStr("high")>>)])]
      [] insights_text = "[\"high\"]" ->
            [raised |-> FALSE, value |-> PyList(<<PyStr("high")>>)]
      [] insights_text = "\"high\"" ->
            [raised |-> FALSE, value |-> PyStr("high")]
      [] insights_text = "3" ->
            [raised |-> FALSE, value |-> PyInt(3)]
      [] OTHER -> [raised |-> TRUE]

\* the insights of the except branch
fallback_insights(browsing_history) ==
    PyDict([primary_interests      |->
                PyList([i \in 1..Len(Take(browsing_history, 2)) |->
                           PyStr(browsing_history[i])]),
            secondary_interests    |-> PyList(<<>>),
            price_sensitivity      |-> PyStr("medium"),
            likely_next_purchase   |-> PyList(<<>>),
            personalization_notes  |->
                PyStr("Basic analysis based on browsing and purchase history.")])

\* try: insights = json.loads(get_llm_response(...)) except Exception: fallback
llm_insights(insights_text, browsing_history) ==
    LET loaded == json_loads_insights(insights_text)
    IN  IF loaded.raised THEN fallback_insights(browsing_history)
        ELSE loaded.value

get_age_group(age) ==
    IF age < 18 THEN "under_18"
    ELSE IF age < 25 THEN "18_24"
    ELSE IF age < 35 THEN "25_34"
    ELSE IF age < 45 THEN "35_44"
    ELSE IF age < 55 THEN "45_54"
    ELSE IF age < 65 THEN "55_64"
    ELSE "65_plus"

\* list(set(browsing_history + purchase_history))
all_categories(browsing_history, purchase_history) ==
    LET both == browsing_history \o purchase_history
    IN  SelectSeq([i \in 1..Len(both) |->
                      IF \E j \in 1..(i - 1) : both[j] = both[i]
                      THEN None ELSE both[i]],
                  LAMBDA c : c # None)

\* _analyze_customer_profile: the analysis dict built of a customers row and
\* of the text the LLM returned
analyze_customer_profile(customer, insights_text) ==
    [customer_id         |-> customer.customer_id,
     customer_segment    |-> customer.customer_segment,
     age_group           |-> get_age_group(customer.age),
     browsing_history    |-> customer.browsing_history,
     purchase_history    |-> customer.purchase_history,
     relevant_categories |-> all_categories(customer.browsing_history,
                                            customer.purchase_history),
     insights            |-> llm_insights(insights_text, customer.browsing_history),
     embedding_id        |-> customer.embedding_id,
     location            |-> customer.location,
     season              |-> customer.season,
     holiday_shopping    |-> customer.holiday]

\* customer_data.get('insights', {}).get('price_sensitivity', 'medium') and
\* the lookup of the value in the table of price factors: a value without
\* .get raises AttributeError, an unhashable key raises TypeError, a key of
\* another type is none of the table's keys
price_sensitivity_of(customer_data) ==
    LET insights == Get(customer_data, "insights", PyDict(<<>>))
    IN  IF insights.type # "dict" THEN [raised |-> "AttributeError"]
        ELSE LET v == Get(insights.items, "price_sensitivity", PyStr("medium"))
             IN  IF v.type \in {"list", "dict"} THEN [raised |-> "TypeError"]
                 ELSE [raised |-> None,
                       price_sensitivity |->
                           IF v.type = "str" THEN v.str ELSE "not a key"]

\* db.get_products_by_category for every category, concatenated
products_of_categories(catalogue, categories) ==
    SelectSeq(catalogue, LAMBDA p : Contains(categories, p.category))

\* _find_relevant_products up to the sorted list: no scoring without
\* categories or products; the score is added to a copy of each product
find_relevant_products(catalogue, customer_data) ==
    LET categories   == Get(customer_data, "relevant_categories", <<>>)
        all_products == products_of_categories(catalogue, categories)
        read         == price_sensitivity_of(customer_data)
        context      == [k \in DOMAIN customer_data |->
                            IF k = "insights"
                            THEN [price_sensitivity |-> read.price_sensitivity]
                            ELSE customer_data[k]]
        filtered     == filter_products_for_customer(all_products, context)
        copies       == [i \in 1..Len(filtered) |->
                            [k \in DOMAIN all_products[i] \cup {"relevance_score"} |->
                                IF k = "relevance_score"
                                THEN filtered[i].relevance_score
                                ELSE all_products[i][k]]]
    IN  IF categories = <<>> \/ all_products = <<>>
        THEN [raised |-> None, products |-> <<>>]
        ELSE IF read.raised # None
        THEN [raised |-> read.raised]
        ELSE [raised   |-> None,
              products |-> sorted_reverse(copies,
                               [i \in 1..Len(copies) |-> copies[i].relevance_score])]

-----------------------------------------------------------------------------
(* State machine: POST /recommendations from the customers row to the answer *)

\* rows of table customers as get_customer returns them; the embedding is on
\* file, gender and last_activity_date go into the prompt only
AnalysisCustomers ==
    [customer_id : {"CU1"}, age : {30}, location : {"Chennai"},
     customer_segment : {"Occasional Shopper"}, avg_order_value : {0, 10},
     holiday : {FALSE}, season : {"Winter"},
     browsing_history : {<<>>, <<"Books">>}, purchase_history : {<<>>},
     embedding_id : {"E1"}]

\* rows of table products
AnalysisProducts ==
    [product_id : {"PR1"}, category : {"Books"}, price : {8, 15},
     geographical_location : {"Chennai"}, season : {"Summer"},
     holiday : {FALSE}, product_rating : {30}, sentiment_score : {5},
     recommendation_probability : {500}]

AnalysisCatalogues == {<<>>} \cup {<<p>> : p \in AnalysisProducts}

\* coordinator.process behind get_recommendations, the LLM answering the
\* insight prompt with insights_text: customer analysis, product selection
\* and scoring, recommendation step.  An exception leaves through the except
\* clause of the API handler as HTTP 500.  The insights the customer agent
\* stores under insights_<customer_id> are read by nothing and are not kept
\* here; memory and agent_memory are the recommendation agent's.
AnalyseAndRecommend(customer, insights_text, catalogue) ==
    LET customer_data == analyze_customer_profile(customer, insights_text)
        product_data  == find_relevant_products(catalogue, customer_data)
        cd            == customer_data_read(customer_data)
        selected      == select_recommendation_strategy(memory, agent_memory, cd)
        recs          == run_strategy(selected.ret, cd, product_data.products)
    IN  /\ request' = [action |-> "recommendation", customer |-> customer,
                       insights_text |-> insights_text, catalogue |-> catalogue]
        /\ inflight' = inflight
        /\ IF product_data.raised # None
           THEN /\ response' = [status |-> "error", code |-> 500,
                                exception |-> product_data.raised]
                /\ UNCHANGED <<memory, agent_memory, recommendations>>
           ELSE /\ Len(recommendations) + Len(recs) <= MaxRecRows
                /\ memory' = selected.memory
                /\ agent_memory' = selected.agent_memory
                /\ recommendations' =
                       recommendations \o recommendation_rows(cd.customer_id, recs)
                /\ response' = [status |-> "ok", code |-> 200,
                                customer_data |-> customer_data,
                                products |-> product_data.products,
                                recommendations |-> recs]

NextAnalysis ==
    \E customer \in AnalysisCustomers, insights_text \in InsightTexts,
       catalogue \in AnalysisCatalogues :
          AnalyseAndRecommend(customer, insights_text, catalogue)

SpecAnalysis == Init /\ [][NextAnalysis]_vars

-----------------------------------------------------------------------------
\* the request is a pipeline request that has been answered
Analysed == request.action = "recommendation" /\ "insights_text" \in DOMAIN request

\* the text is the JSON object the prompt asks for: an object whose
\* price_sensitivity, where stated, is a string
ExpectedObject(insights_text) ==
    LET loaded == json_loads_insights(insights_text)
    IN  /\ ~loaded.raised
        /\ loaded.value.type = "dict"
        /\ "price_sensitivity" \in DOMAIN loaded.value.items
              => loaded.value.items.price_sensitivity.type = "str"

(* C27: an insight text of the LLM that is not the expected JSON object      *)
(* (unparseable, valid JSON that is no object, or an object whose            *)
(* price_sensitivity is no string) never surfaces as an error: the request   *)
(* is answered, and with the fallback insights in the customer context.      *)
C27_MalformedInsightsRecovered ==
    (Analysed /\ ~ExpectedObject(request.insights_text))
        => /\ response.status = "ok"
           /\ response.customer_data.insights
                  = fallback_insights(request.customer.browsing_history)

\* the price of a scored product fits the customer's stored order value
PriceFits(product, customer, customer_data) ==
    product.price * 10
        <= customer.avg_order_value
              * price_factor(price_sensitivity_of(customer_data).price_sensitivity)

(* C28: in the pipeline the price-fit adjustment is computed from the        *)
(* customer's stored avg_order_value: the context handed to the scorer       *)
(* carries the value of the customers row, and a product priced at or below  *)
(* avg_order_value * multiplier is scored with +0.10.                        *)
C28_PriceFitFromStoredOrderValue ==
    (Analysed /\ response.status = "ok")
        => \A i \in 1..Len(response.products) :
              PriceFits(response.products[i], request.customer,
                        response.customer_data)
                 => /\ "avg_order_value" \in DOMAIN response.customer_data
                    /\ response.customer_data.avg_order_value
                          = request.customer.avg_order_value
                    /\ response.products[i].relevance_score
                          = clamp(adjusted_score(
                                response.products[i],
                                [location |-> request.customer.location,
                                 season |-> request.customer.season,
                                 holiday_shopping |-> request.customer.holiday,
                                 avg_order_value |-> request.customer.avg_order_value,
                                 insights |->
                                    [price_sensitivity |->
                                        price_sensitivity_of(response.customer_data)
                                            .price_sensitivity]]))

====
